---- MODULE Spec2Model ----
(***************************************************************************)
(* Model of the pkg5 catalog (src/src/modules/catalog.py) and of the       *)
(* dependency action (src/src/modules/actions/depend.py).                  *)
(*                                                                         *)
(* Text is modelled as a tuple of tokens (strings): the FMRI text          *)
(* "pkg:/test@1.0" is <<"pkg:/", "test", "@", "1.0">>, and the catalog     *)
(* line "V pkg:/test@1.0\n" is <<"V", " ", "pkg:/", "test", "@", "1.0">>.  *)
(* A file, and the result of serialization, is a sequence of lines.        *)
(***************************************************************************)
EXTENDS Integers, Sequences, FiniteSets, TLC

VARIABLES
    attrs,          \* Catalog.attrs
    pkgs,           \* Catalog.pkgs
    critical_pkgs,  \* Catalog.critical_pkgs
    last,           \* the last call on the Catalog and how it ended
    action,         \* DependencyAction.attrs
    image,          \* what the image answers to the lookups of verify
    result,         \* what the last call on the DependencyAction gave
    data,           \* the attributes handed to DependencyAction.__init__,
                    \* or the arguments of the last query of the Catalog
    threads         \* the calls running concurrently on the Catalog: where
                    \* each one is, and its local variables

catVars == <<attrs, pkgs, critical_pkgs, last, threads>>
depVars == <<action, image, result, data>>
vars == <<attrs, pkgs, critical_pkgs, last, action, image, result, data, threads>>

\* ------------------------------------------------------------------ bounds
\* Longest file (in lines) handed to load.
MaxLines == 2
\* Longest critical_pkgs list the model lets the catalog grow to.
MaxCritical == 2

\* ------------------------------------------------------------ input domains
Names == {"test", "foo"}
Versions == {"1.0", "2.0"}
NoVersion == "None"
\* time.time() at construction, in milliseconds.
Times == {7125}

\* ------------------------------------------------- pkg.fmri (not in src/)
\* A PkgFmri object: package name (the stem is "pkg:/" + name) and version.
FmriObj(n, v) == [name |-> n, version |-> v]

FmriObjs == {FmriObj(n, v) : n \in Names, v \in Versions}

\* str(PkgFmri): the text of the identifier.
FmriStr(f) ==
    IF f.version = NoVersion
    THEN <<"pkg:/", f.name>>
    ELSE <<"pkg:/", f.name, "@", f.version>>

\* fmri.PkgFmri(text, build_release): parses a text; raises on a malformed one
\* (an empty stem, a scheme that is not pkg:, a version that is no version).
PkgFmri(text) ==
    IF /\ Len(text) \in {2, 4}
       /\ text[1] = "pkg:/"
       /\ text[2] \in Names
       /\ Len(text) = 4 => (text[3] = "@" /\ text[4] \in Versions)
    THEN [exc |-> "none",
          val |-> FmriObj(text[2], IF Len(text) = 4 THEN text[4] ELSE NoVersion)]
    ELSE [exc |-> "MalformedFmri", val |-> FmriObj("", NoVersion)]

\* PkgFmri.get_pkg_stem(): the identifier with the version stripped.
get_pkg_stem(f) == <<"pkg:/", f.name>>

\* PkgFmri.is_same_pkg(other): identical stem and identical version tuple.
is_same_pkg(a, b) == a.name = b.name /\ a.version = b.version

\* ---------------------------------------------- pkg.package (not in src/)
\* package.Package(fmri): no versions yet.
Package(pfmri) == [fmri |-> pfmri, pversions |-> <<>>]

\* Package.add_version(f): appends f unless a version-equal entry is stored.
add_version(p, f) ==
    IF \E i \in 1..Len(p.pversions) : p.pversions[i].version = f.version
    THEN p
    ELSE [p EXCEPT !.pversions = Append(@, f)]

\* Package.get_catalog_entry(): one "V <fmri>" line per stored version.
get_catalog_entry(p) ==
    [i \in 1..Len(p.pversions) |-> <<"V", " ">> \o FmriStr(p.pversions[i])]

\* str(Package), as "%s" % p renders it: the package's identifier.
PackageStr(p) == FmriStr(p.fmri)

\* ------------------------------------------------------------------ Catalog
\* A catalog value: the three fields the operations change.
Cat(a, p, c) == [attrs |-> a, pkgs |-> p, critical_pkgs |-> c]

LastModified == <<"Last-Modified">>

FloatVal(ms) == [t |-> "float", ms |-> ms, s |-> <<>>]
StrVal(s) == [t |-> "str", ms |-> 0, s |-> s]

\* Catalog.__init__ at time t: attrs holds the float time.time() returned.
NewCatalog(t) == Cat([k \in {LastModified} |-> FloatVal(t)], <<>>, <<>>)

\* "%s" of a float (Python 2: 12 significant digits, here two decimals).
FloatStr(ms) == <<ToString(ms \div 1000), ".", ToString((ms % 1000) \div 10)>>

\* "%s" of an attribute value.
ValueStr(v) == IF v.t = "float" THEN FloatStr(v.ms) ELSE v.s


\* Catalog.add_fmri, mutated: the lookup of an existing Package is skipped.
add_fmri_no_lookup(c, pkgfmri) ==
    LET pfmri == PkgFmri(get_pkg_stem(pkgfmri)).val
    IN  [c EXCEPT !.pkgs = Append(@, add_version(Package(pfmri), pkgfmri))]

\* Catalog.add_fmri, mutated: a new Package is created without its version.
add_fmri_unseeded(c, pkgfmri) ==
    LET pfmri == PkgFmri(get_pkg_stem(pkgfmri)).val
        hits == {i \in 1..Len(c.pkgs) : is_same_pkg(c.pkgs[i].fmri, pfmri)}
    IN  IF hits # {}
        THEN LET i == CHOOSE j \in hits : \A h \in hits : j <= h
             IN  [c EXCEPT !.pkgs[i] = add_version(@, pkgfmri)]
        ELSE [c EXCEPT !.pkgs = Append(@, Package(pfmri))]

\* Catalog.add_fmri, mutated: the version is appended without add_version.
add_fmri_append(c, pkgfmri) ==
    LET pfmri == PkgFmri(get_pkg_stem(pkgfmri)).val
        hits == {i \in 1..Len(c.pkgs) : is_same_pkg(c.pkgs[i].fmri, pfmri)}
    IN  IF hits # {}
        THEN LET i == CHOOSE j \in hits : \A h \in hits : j <= h
             IN  [c EXCEPT !.pkgs[i].pversions = Append(@, pkgfmri)]
        ELSE [c EXCEPT !.pkgs = Append(@, add_version(Package(pfmri), pkgfmri))]

\* Catalog.add_fmri(pkgfmri).
add_fmri(c, pkgfmri) ==
    LET pfmri == PkgFmri(get_pkg_stem(pkgfmri)).val
        hits == {i \in 1..Len(c.pkgs) : is_same_pkg(c.pkgs[i].fmri, pfmri)}
    IN  IF hits # {}
        THEN LET i == CHOOSE j \in hits : \A h \in hits : j <= h
             IN  [c EXCEPT !.pkgs[i] = add_version(@, pkgfmri)]
        ELSE [c EXCEPT !.pkgs = Append(@, add_version(Package(pfmri), pkgfmri))]

\* An entry of critical_pkgs: a Package (add_pkg appends the object that is
\* also in pkgs, named here by its stem) or a PkgFmri (load appends one).
CriticalPackage(p) == [kind |-> "Package", name |-> p.fmri.name, version |-> NoVersion]
CriticalFmri(f) == [kind |-> "PkgFmri", name |-> f.name, version |-> f.version]

\* Catalog.add_pkg, mutated: the Package found is replaced by the new one
\* and the critical flag is honoured.
add_pkg_replace(c, pkg, critical) ==
    LET hits == {i \in 1..Len(c.pkgs) : pkg.fmri = c.pkgs[i].fmri}
    IN  IF hits # {}
        THEN [c EXCEPT !.pkgs[CHOOSE i \in hits : TRUE] = pkg,
                       !.critical_pkgs =
                           IF critical THEN Append(@, CriticalPackage(pkg)) ELSE @]
        ELSE [c EXCEPT !.pkgs = Append(@, pkg),
                       !.critical_pkgs =
                           IF critical THEN Append(@, CriticalPackage(pkg)) ELSE @]

\* Catalog.add_pkg(pkg, critical).
add_pkg(c, pkg, critical) ==
    IF \E i \in 1..Len(c.pkgs) : pkg.fmri = c.pkgs[i].fmri
    THEN c
    ELSE [c EXCEPT !.pkgs = Append(@, pkg),
                   !.critical_pkgs =
                       IF critical THEN Append(@, CriticalPackage(pkg)) ELSE @]

\* The two regular expressions, mutated: any scheme is accepted ("^V ([^ ]*)").
MatchPkg_any_scheme(tag, entry) ==
    IF Len(entry) >= 3 /\ entry[1] = tag /\ entry[2] = " "
    THEN LET sp == {i \in 3..Len(entry) : entry[i] = " "}
             e  == IF sp = {} THEN Len(entry)
                   ELSE (CHOOSE i \in sp : \A j \in sp : i <= j) - 1
         IN  [m |-> TRUE, g |-> SubSeq(entry, 3, e)]
    ELSE [m |-> FALSE, g |-> <<>>]

\* re.match("^V (pkg:[^ ]*)", entry) and "^C (pkg:[^ ]*)": whether the line
\* matches, and group(1), the tokens from "pkg:" up to the first space.
MatchPkg(tag, entry) ==
    IF Len(entry) >= 3 /\ entry[1] = tag /\ entry[2] = " " /\ entry[3] = "pkg:/"
    THEN LET sp == {i \in 3..Len(entry) : entry[i] = " "}
             e  == IF sp = {} THEN Len(entry)
                   ELSE (CHOOSE i \in sp : \A j \in sp : i <= j) - 1
         IN  [m |-> TRUE, g |-> SubSeq(entry, 3, e)]
    ELSE [m |-> FALSE, g |-> <<>>]

\* Tokens that hold a colon.
ColonTokens == {":", "pkg:/", "svc:/"}

\* re.match("^S ([^:]*): (.*)", entry): group(1) runs to the first colon,
\* which ": " must follow; group(2) is the rest of the line.
MatchS(entry) ==
    LET cs == {i \in 3..Len(entry) : entry[i] \in ColonTokens}
        i  == IF cs = {} THEN 0 ELSE CHOOSE x \in cs : \A y \in cs : x <= y
    IN  IF /\ Len(entry) >= 2 /\ entry[1] = "S" /\ entry[2] = " "
           /\ i # 0 /\ entry[i] = ":" /\ i + 1 <= Len(entry) /\ entry[i + 1] = " "
        THEN [m |-> TRUE, k |-> SubSeq(entry, 3, i - 1),
              v |-> SubSeq(entry, i + 2, Len(entry))]
        ELSE [m |-> FALSE, k |-> <<>>, v |-> <<>>]

\* attrs[k] = v
SetAttr(a, k, v) == [x \in DOMAIN a \cup {k} |-> IF x = k THEN v ELSE a[x]]

\* One pass of the loop body of Catalog.load over a line: the catalog after
\* it, and the exception that ended it ("none" when the line was processed).
load_entry(c, entry) ==
    LET mv == MatchPkg("V", entry)
        fv == PkgFmri(mv.g)
        ms == MatchS(entry)
        mc == MatchPkg("C", entry)
        fc == PkgFmri(mc.g)
    IN  IF mv.m /\ fv.exc # "none" THEN [cat |-> c, exc |-> fv.exc]
        ELSE
        LET c1 == IF mv.m THEN add_fmri(c, fv.val) ELSE c
            c2 == IF ms.m THEN [c1 EXCEPT !.attrs = SetAttr(@, ms.k, StrVal(ms.v))]
                  ELSE c1
        IN  IF mc.m /\ fc.exc # "none" THEN [cat |-> c2, exc |-> fc.exc]
            ELSE [cat |-> IF mc.m
                          THEN [c2 EXCEPT !.critical_pkgs = Append(@, CriticalFmri(fc.val))]
                          ELSE c2,
                  exc |-> "none"]

\* The loop of Catalog.load from line k on: it stops at the line that raises.
RECURSIVE load_from(_, _, _)
load_from(c, centries, k) ==
    IF k > Len(centries) THEN [cat |-> c, exc |-> "none", line |-> 0]
    ELSE LET r == load_entry(c, centries[k])
         IN  IF r.exc # "none" THEN [cat |-> r.cat, exc |-> r.exc, line |-> k]
             ELSE load_from(r.cat, centries, k + 1)

\* Catalog.load(path), with centries the lines of the file at path.
load(c, centries) == load_from(c, centries, 1)

\* The keys of a dict, in the order iteration yields them: some fixed order.
RECURSIVE KeySeq(_)
KeySeq(S) ==
    IF S = {} THEN <<>>
    ELSE LET k == CHOOSE x \in S : TRUE
         IN  <<k>> \o KeySeq(S \ {k})

\* The concatenation of a sequence of sequences of lines.
RECURSIVE Concat(_)
Concat(ss) == IF ss = <<>> THEN <<>> ELSE Head(ss) \o Concat(Tail(ss))

\* Catalog.relns: set empty at construction and written nowhere.
relns == {}

\* The "S key: value" lines of Catalog.__str__.
attr_lines(c) ==
    LET ks == KeySeq(DOMAIN c.attrs)
    IN  [i \in 1..Len(ks) |->
            <<"S", " ">> \o ks[i] \o <<":", " ">> \o ValueStr(c.attrs[ks[i]])]

\* The package lines of Catalog.__str__.
pkg_lines(c) == Concat([i \in 1..Len(c.pkgs) |-> get_catalog_entry(c.pkgs[i])])

\* The "C ..." lines of Catalog.__str__: one per critical package, each
\* rendering p, the variable the loop over pkgs left bound to the last Package.
critical_lines(c) ==
    [i \in 1..Len(c.critical_pkgs) |-> <<"C", " ">> \o PackageStr(c.pkgs[Len(c.pkgs)])]

\* The "I ..." lines of Catalog.__str__.
reln_lines(c) ==
    LET rs == KeySeq(relns)
    IN  [i \in 1..Len(rs) |-> <<"I", " ">> \o rs[i]]

\* Catalog.__str__: the lines of the text, or the exception raised (p is
\* unbound when there is a critical package and pkgs is empty).
catalog_str(c) ==
    IF c.critical_pkgs # <<>> /\ c.pkgs = <<>>
    THEN [exc |-> "NameError", text |-> <<>>]
    ELSE [exc |-> "none",
          text |-> attr_lines(c) \o pkg_lines(c) \o critical_lines(c) \o reln_lines(c)]

\* ------------------------------------------------------------ the inputs
\* Packages a caller hands to add_pkg: a stem and distinct versions of it.
InputPackages ==
    UNION {{[fmri |-> FmriObj(n, NoVersion), pversions |-> vs] :
               vs \in {<<>>} \cup {<<FmriObj(n, v)>> : v \in Versions}
                             \cup {<<FmriObj(n, "1.0"), FmriObj(n, "2.0")>>}} :
           n \in Names}

\* Lines of catalog files: V lines of two well-formed identifiers and of one
\* with an empty stem, a C line and an S line.
Lines ==
    {<<"V", " ">> \o FmriStr(FmriObj("test", "1.0")),
     <<"V", " ">> \o FmriStr(FmriObj("foo", "2.0")),
     <<"V", " ", "pkg:/", "", "@", "1.0">>,
     <<"C", " ">> \o FmriStr(FmriObj("foo", "1.0")),
     <<"S", " ", "Last-Modified", ":", " ", "7", ".", "12">>}

Files == UNION {[1..n -> Lines] : n \in 0..MaxLines}

\* ------------------------------------------------------- DependencyAction
\* DependencyAction.known_types
known_types == {"optional", "require", "transfer", "incorporate"}

\* What a call gives: the value returned, or the exception raised, and the
\* lookups of the image it made, in order.
Return(v, calls) == [exc |-> "none", ret |-> v, calls |-> calls]
Raise(e, calls) == [exc |-> e, ret |-> <<>>, calls |-> calls]

\* A message: the format string and the texts substituted into it.
Msg(fmt, args) == [fmt |-> fmt, args |-> args]

\* DependencyAction.verify, mutated: the FMRI is parsed before the type is
\* looked at.
verify_parse_first(a, img) ==
    LET f == PkgFmri(a.fmri)
    IN  IF f.exc # "none" THEN Raise(f.exc, <<>>)
        ELSE IF a.type \notin known_types
        THEN Return(<<Msg("Unknown type (%s) in depend action", <<<<a.type>>>>)>>, <<>>)
        ELSE Return(<<>>, <<"has_version_installed">>)

\* DependencyAction.verify, mutated: an older installed version is reported
\* without the type.
verify_untyped_downrev(a, img) ==
    LET f == PkgFmri(a.fmri)
    IN  IF a.type \notin known_types
        THEN Return(<<Msg("Unknown type (%s) in depend action", <<<<a.type>>>>)>>, <<>>)
        ELSE IF f.exc # "none" THEN Raise(f.exc, <<>>)
        ELSE IF img.has THEN Return(<<>>, <<"has_version_installed">>)
        ELSE IF a.type = "require"
        THEN Raise("NameError", <<"has_version_installed">>)
        ELSE IF img.older # NoVersion
        THEN Return(<<Msg("%s dependency %s is downrev (%s)",
                          <<<<"depend">>, FmriStr(f.val),
                            FmriStr(FmriObj(f.val.name, img.older))>>)>>,
                    <<"has_version_installed", "older_version_installed">>)
        ELSE Return(<<>>, <<"has_version_installed", "older_version_installed">>)

\* DependencyAction.verify, mutated: older_version_installed is asked
\* whatever has_version_installed answered.
verify_always_asks_older(a, img) ==
    LET f == PkgFmri(a.fmri)
    IN  IF a.type \notin known_types
        THEN Return(<<Msg("Unknown type (%s) in depend action", <<<<a.type>>>>)>>, <<>>)
        ELSE IF f.exc # "none" THEN Raise(f.exc, <<>>)
        ELSE IF img.has
        THEN Return(<<>>, <<"has_version_installed", "older_version_installed">>)
        ELSE IF a.type = "require"
        THEN Raise("NameError", <<"has_version_installed">>)
        ELSE IF img.older # NoVersion
        THEN Return(<<Msg("%s dependency %s is downrev (%s)",
                          <<<<a.type>>, FmriStr(f.val),
                            FmriStr(FmriObj(f.val.name, img.older))>>)>>,
                    <<"has_version_installed", "older_version_installed">>)
        ELSE Return(<<>>, <<"has_version_installed", "older_version_installed">>)

\* DependencyAction.verify, mutated: the uprev test of incorporate, which
\* the code keeps commented out, is made.
verify_reports_uprev(a, img) ==
    LET f == PkgFmri(a.fmri)
    IN  IF a.type \notin known_types
        THEN Return(<<Msg("Unknown type (%s) in depend action", <<<<a.type>>>>)>>, <<>>)
        ELSE IF f.exc # "none" THEN Raise(f.exc, <<>>)
        ELSE IF img.has
        THEN IF a.type = "incorporate"
             THEN Return(<<Msg("%s dependency %s is uprev (%s)",
                               <<<<a.type>>, FmriStr(f.val), <<"True">>>>)>>,
                         <<"has_version_installed", "is_installed">>)
             ELSE Return(<<>>, <<"has_version_installed">>)
        ELSE IF a.type = "require"
        THEN Raise("NameError", <<"has_version_installed">>)
        ELSE IF img.older # NoVersion
        THEN Return(<<Msg("%s dependency %s is downrev (%s)",
                          <<<<a.type>>, FmriStr(f.val),
                            FmriStr(FmriObj(f.val.name, img.older))>>)>>,
                    <<"has_version_installed", "older_version_installed">>)
        ELSE Return(<<>>, <<"has_version_installed", "older_version_installed">>)

\* DependencyAction.verify(image): img.has is what has_version_installed(f)
\* answers, img.older the version older_version_installed(f) answers with
\* (NoVersion: None).  The message of a missing required dependency formats
\* fm, a name bound nowhere: evaluating it raises NameError.
verify(a, img) ==
    LET f == PkgFmri(a.fmri)
    IN  IF a.type \notin known_types
        THEN Return(<<Msg("Unknown type (%s) in depend action", <<<<a.type>>>>)>>, <<>>)
        ELSE IF f.exc # "none" THEN Raise(f.exc, <<>>)
        ELSE IF img.has THEN Return(<<>>, <<"has_version_installed">>)
        ELSE IF a.type = "require"
        THEN Raise("NameError", <<"has_version_installed">>)
        ELSE IF img.older # NoVersion
        THEN Return(<<Msg("%s dependency %s is downrev (%s)",
                          <<<<a.type>>, FmriStr(f.val),
                            FmriStr(FmriObj(f.val.name, img.older))>>)>>,
                    <<"has_version_installed", "older_version_installed">>)
        ELSE Return(<<>>, <<"has_version_installed", "older_version_installed">>)

\* The declarations verified: every known type, the unimplemented exclude
\* and a type known nowhere; two well-formed identifiers and one with an
\* empty stem.
DeclTypes == known_types \cup {"exclude", "bogus"}
DeclFmris ==
    {<<"pkg:/", "foo", "@", "1.0">>, <<"pkg:/", "foo", "@", "2.0">>,
     <<"pkg:/", "", "@", "1.0">>}
Declarations == [type : DeclTypes, fmri : DeclFmris]
Images == [has : BOOLEAN, older : Versions \cup {NoVersion}]

\* No call made yet.
NotCalled == [exc |-> "not called", ret |-> <<>>, calls |-> <<>>]

\* ------------------------------------------------------------ the machine
cat == Cat(attrs, pkgs, critical_pkgs)

CatalogInit ==
    /\ \E t \in Times :
          /\ attrs = NewCatalog(t).attrs
          /\ pkgs = NewCatalog(t).pkgs
          /\ critical_pkgs = NewCatalog(t).critical_pkgs
    /\ last = [op |-> "init", out |-> "none"]
    /\ threads = <<>>

\* One declaration and one image, fixed while the Catalog is exercised.
DependIdle ==
    /\ action = [type |-> "require", fmri |-> <<"pkg:/", "foo", "@", "1.0">>]
    /\ image = [has |-> TRUE, older |-> NoVersion]
    /\ result = NotCalled
    /\ data = action

Init == CatalogInit /\ DependIdle

Becomes(c) ==
    /\ attrs' = c.attrs
    /\ pkgs' = c.pkgs
    /\ critical_pkgs' = c.critical_pkgs
    /\ UNCHANGED threads

HasStem(c, n) == \E i \in 1..Len(c.pkgs) : c.pkgs[i].fmri.name = n

\* A call of add_fmri(f); last records whether the stem was present.
AddFmri(f) ==
    \E c \in {add_fmri(cat, f)} :
        /\ Becomes(c)
        /\ last' = [op |-> "add_fmri",
                    out |-> IF HasStem(cat, f.name) THEN "existing" ELSE "new"]
        /\ UNCHANGED depVars

\* A call of add_pkg(p, critical).
AddPkg(p, critical) ==
    \E c \in {add_pkg(cat, p, critical)} :
        /\ Len(c.critical_pkgs) <= MaxCritical
        /\ Becomes(c)
        /\ last' = [op |-> "add_pkg",
                    out |-> IF HasStem(cat, p.fmri.name) THEN "noop"
                            ELSE IF critical THEN "critical" ELSE "inserted"]
        /\ UNCHANGED depVars

\* A call of load(path) on a file of lines centries; last records the
\* exception that ended it ("none": it returned).
Load(centries) ==
    \E r \in {load(cat, centries)} :
        /\ Len(r.cat.critical_pkgs) <= MaxCritical
        /\ Becomes(r.cat)
        /\ last' = [op |-> "load", out |-> r.exc]
        /\ UNCHANGED depVars

Next ==
    \/ \E f \in FmriObjs : AddFmri(f)
    \/ \E p \in InputPackages, critical \in BOOLEAN : AddPkg(p, critical)
    \/ \E centries \in Files : Load(centries)

Spec == Init /\ [][Next]_vars

\* ------------------------------------------- the machine of verification
\* Any declaration against any image; the Catalog is left as constructed.
VerifyInit ==
    /\ CatalogInit
    /\ action \in Declarations
    /\ image \in Images
    /\ result = NotCalled
    /\ data = action

\* A call of verify(image) on the declaration.
Verify ==
    /\ result = NotCalled
    /\ result' = verify(action, image)
    /\ UNCHANGED <<action, image, data>>
    /\ UNCHANGED catVars

\* The next declaration is verified against the next image.
NextDeclaration ==
    /\ result # NotCalled
    /\ action' \in Declarations
    /\ image' \in Images
    /\ result' = NotCalled
    /\ data' = action'
    /\ UNCHANGED catVars

VerifyNext == Verify \/ NextDeclaration

SpecVerify == VerifyInit /\ [][VerifyNext]_vars

\* ================================================================ claims
\* The stems of the Packages of a catalog, and the versions stored for one.
StemsOf(c) == {c.pkgs[i].fmri.name : i \in 1..Len(c.pkgs)}
VersionsOf(c, n) ==
    UNION {{c.pkgs[i].pversions[j].version : j \in 1..Len(c.pkgs[i].pversions)} :
           i \in {x \in 1..Len(c.pkgs) : c.pkgs[x].fmri.name = n}}

\* C1: in every state reached by add_fmri, add_pkg and load calls, no two
\* entries of pkgs have the same stem.
C1_OnePackagePerStem ==
    \A i, j \in 1..Len(pkgs) : pkgs[i].fmri.name = pkgs[j].fmri.name => i = j

\* C1 witness: both stems are present, each with both of its versions.
C1_Witness ==
    /\ Len(pkgs) = 2
    /\ \A i \in 1..Len(pkgs) : Len(pkgs[i].pversions) = 2

\* C2: every entry of critical_pkgs names a package that pkgs holds.
\* The code breaks it: load appends the identifier of a C line whatever pkgs
\* holds.
C2_CriticalReachable ==
    \A i \in 1..Len(critical_pkgs) : HasStem(cat, critical_pkgs[i].name)

\* What add_fmri(f) is to do to pkgs: hand f to the Package of its stem when
\* there is one, else append one new Package seeded with f; every other
\* Package is left as it was.
AddFmriPost(f) ==
    LET hits == {i \in 1..Len(pkgs) : pkgs[i].fmri.name = f.name}
    IN  IF hits # {}
        THEN /\ Len(pkgs') = Len(pkgs)
             /\ \A i \in 1..Len(pkgs) :
                    pkgs'[i] = IF i \in hits THEN add_version(pkgs[i], f) ELSE pkgs[i]
        ELSE /\ Len(pkgs') = Len(pkgs) + 1
             /\ pkgs'[Len(pkgs')] =
                    [fmri |-> FmriObj(f.name, NoVersion), pversions |-> <<f>>]
             /\ \A i \in 1..Len(pkgs) : pkgs'[i] = pkgs[i]

\* C3: every step of add_fmri(f) hands f to the existing Package of its stem
\* and leaves the number of Packages unchanged, or appends exactly one new
\* Package seeded with f; no other Package changes.
C3_AddFmriEffect ==
    [][\A f \in FmriObjs :
          (last'.op = "add_fmri" /\ AddFmri(f)) => AddFmriPost(f)]_vars

\* C3 witness: add_fmri has just been called for a stem that was present,
\* next to a Package of the other stem.
C3_Witness ==
    /\ last = [op |-> "add_fmri", out |-> "existing"]
    /\ Len(pkgs) = 2

\* C4: in every reachable state and for every FMRI f, a second add_fmri(f)
\* leaves the Packages, their version lists and the serialized text as the
\* first call left them.
C4_AddFmriIdempotent ==
    \A f \in FmriObjs :
        LET c1 == add_fmri(cat, f)
            c2 == add_fmri(c1, f)
        IN  /\ c2.pkgs = c1.pkgs
            /\ c2 = c1
            /\ catalog_str(c2) = catalog_str(c1)

\* C4 witness: add_fmri has just added a second version to a Package, and
\* the catalog serializes.
C4_Witness ==
    /\ last.op = "add_fmri"
    /\ \E i \in 1..Len(pkgs) : Len(pkgs[i].pversions) = 2
    /\ \E f \in FmriObjs : add_fmri(cat, f) = cat
    /\ catalog_str(cat).exc = "none"

\* C5: a load that fails leaves attrs, pkgs and critical_pkgs as they were.
\* The code breaks it: the lines before the failing one stay applied.
C5_LoadAllOrNothing ==
    [][(last'.op = "load" /\ last'.out # "none")
        => UNCHANGED <<attrs, pkgs, critical_pkgs>>]_vars

\* The catalogs that add_fmri calls alone build: attrs as constructed, no
\* critical package, every Package with a version.
BuiltByAddFmri ==
    /\ last.op = "add_fmri"
    /\ \E t \in Times : attrs = NewCatalog(t).attrs
    /\ critical_pkgs = <<>>
    /\ \A i \in 1..Len(pkgs) : pkgs[i].pversions # <<>>

\* The catalog a fresh Catalog becomes by loading the text of c.
Reloaded(c) == load(NewCatalog(CHOOSE t \in Times : TRUE), catalog_str(c).text).cat

\* Same stems and same versions per stem.
SamePackages(c, d) ==
    /\ StemsOf(c) = StemsOf(d)
    /\ \A n \in StemsOf(c) : VersionsOf(c, n) = VersionsOf(d, n)

\* C6: for a catalog built by add_fmri calls, loading its serialized text
\* into a fresh Catalog gives the same stems, the same versions per stem and
\* the same attrs, key and value.  The code breaks it: Last-Modified is a
\* float in the constructed catalog and the text of it in the loaded one.
C6_RoundTrip ==
    BuiltByAddFmri =>
        /\ catalog_str(cat).exc = "none"
        /\ SamePackages(cat, Reloaded(cat))
        /\ Reloaded(cat).attrs = attrs

\* The identifier of a critical package itself.
CriticalStr(e) == FmriStr(FmriObj(e.name, e.version))

\* C7: the serialized text is the S lines of the attrs, then every
\* Package's catalog entry, then one "C <fmri>" line per critical package
\* naming that package, then the I lines (stated of a catalog that holds a
\* Package: with none and a critical package, p is unbound and __str__
\* raises).  The code breaks it: every C line names the last Package of pkgs.
C7_SerializationOrder ==
    pkgs # <<>> =>
        catalog_str(cat) =
            [exc |-> "none",
             text |-> attr_lines(cat) \o pkg_lines(cat)
                      \o [i \in 1..Len(critical_pkgs) |->
                             <<"C", " ">> \o CriticalStr(critical_pkgs[i])]
                      \o reln_lines(cat)]

\* The declaration parses and the image reports its FMRI as not installed.
Missing == PkgFmri(action.fmri).exc = "none" /\ ~image.has

\* C8: verify of a require declaration whose FMRI is not installed returns
\* exactly one message, saying the required dependency is not installed.
\* The code breaks it: the message formats an unbound name and verify raises.
C8_RequireMissing ==
    (result # NotCalled /\ action.type = "require" /\ Missing) =>
        /\ result.exc = "none"
        /\ Len(result.ret) = 1
        /\ result.ret[1].fmt = "Required dependency %s is not installed"

\* C9: verify of an optional, transfer or incorporate declaration whose FMRI
\* is not installed returns one message naming the type, the dependency and
\* the installed version when an older version is installed, and no message
\* when none is.
C9_OptionalMissing ==
    (/\ result # NotCalled
     /\ action.type \in {"optional", "transfer", "incorporate"}
     /\ Missing) =>
        /\ result.exc = "none"
        /\ result.ret =
              IF image.older # NoVersion
              THEN <<Msg("%s dependency %s is downrev (%s)",
                         <<<<action.type>>, action.fmri,
                           <<"pkg:/", action.fmri[2], "@", image.older>>>>)>>
              ELSE <<>>

\* C9 witness: a transfer declaration was verified against an image with an
\* older version installed, and one message came back.
C9_Witness ==
    /\ action.type = "transfer"
    /\ Missing
    /\ image.older # NoVersion
    /\ result.exc = "none"
    /\ Len(result.ret) = 1

\* C10: verify of a declaration of a type outside known_types returns, and
\* does not raise, exactly one message reporting the unknown type, whatever
\* the FMRI text and the installed state.
C10_UnknownType ==
    (result # NotCalled /\ action.type \notin known_types) =>
        /\ result.exc = "none"
        /\ result.ret = <<Msg("Unknown type (%s) in depend action", <<<<action.type>>>>)>>

\* C10 witness: a declaration of an unknown type whose FMRI does not parse
\* was verified and one message came back.
C10_Witness ==
    /\ action.type \notin known_types
    /\ PkgFmri(action.fmri).exc # "none"
    /\ result.exc = "none"
    /\ Len(result.ret) = 1

\* ------------------------------------------------ DependencyAction.parse
\* None, where an FMRI may stand.
NoneFmri == FmriObj("None", NoVersion)

\* The tuple (required, min_fmri, max_fmri) parse returns.
Triple(required, min_fmri, max_fmri) ==
    [required |-> required, min_fmri |-> min_fmri, max_fmri |-> max_fmri]

\* DependencyAction.parse, mutated: incorporate is left required.
parse_incorporate_required(a, img) ==
    LET f == PkgFmri(a.fmri)
    IN  IF f.exc # "none" THEN Raise(f.exc, <<>>)
        ELSE Return(<<Triple(a.type \notin {"optional", "transfer"}, f.val,
                             IF a.type = "incorporate" THEN f.val ELSE NoneFmri)>>,
                    <<"fmri_set_default_authority">>)

\* DependencyAction.parse(image): the tuple returned is the one element of
\* ret.  Every type that is not optional, transfer or incorporate keeps
\* required = True and max_fmri = None.
parse(a, img) ==
    LET f == PkgFmri(a.fmri)
    IN  IF f.exc # "none" THEN Raise(f.exc, <<>>)
        ELSE Return(<<Triple(a.type \notin {"optional", "transfer", "incorporate"},
                             f.val,
                             IF a.type = "incorporate" THEN f.val ELSE NoneFmri)>>,
                    <<"fmri_set_default_authority">>)

\* A call of parse(image) on the declaration.
Parse ==
    /\ result = NotCalled
    /\ result' = parse(action, image)
    /\ UNCHANGED <<action, image, data>>
    /\ UNCHANGED catVars

ParseNext == Parse \/ NextDeclaration

SpecParse == VerifyInit /\ [][ParseNext]_vars

\* The FMRI a well-formed text of a declaration names.
DeclFmri == FmriObj(action.fmri[2], action.fmri[4])

\* C11: parse returns (True, f, None) for require, (False, f, None) for
\* optional and transfer, (False, f, f) for incorporate, f being the FMRI
\* the declaration names.
C11_ParseTriple ==
    (/\ result # NotCalled
     /\ action.type \in known_types
     /\ action.fmri[2] \in Names) =>
        /\ result.exc = "none"
        /\ result.ret =
              <<Triple(action.type = "require", DeclFmri,
                       IF action.type = "incorporate" THEN DeclFmri ELSE NoneFmri)>>

\* C11 witness: an incorporate declaration was parsed and its ceiling is its
\* floor.
C11_Witness ==
    /\ action.type = "incorporate"
    /\ result.exc = "none"
    /\ Len(result.ret) = 1
    /\ ~result.ret[1].required
    /\ result.ret[1].max_fmri = result.ret[1].min_fmri

\* C12: parse of a declaration of a type outside require, optional,
\* transfer, incorporate fails and returns no tuple.  The code breaks it:
\* such a type falls through as a require.
C12_ParseUnknownFails ==
    (result # NotCalled /\ action.type \notin known_types) =>
        /\ result.exc # "none"
        /\ result.ret = <<>>

\* C13: an exclude declaration is not treated as satisfied nor as another
\* type: verify does not return the empty list for it and parse does not
\* return the tuple of a require.  The code breaks the second: parse gives
\* (True, f, None).
C13_ExcludeNotSilent ==
    action.type = "exclude" =>
        /\ ~(verify(action, image).exc = "none" /\ verify(action, image).ret = <<>>)
        /\ result # NotCalled =>
              ~(/\ result.exc = "none"
                /\ Len(result.ret) = 1
                /\ \E t \in known_types :
                      result.ret[1] =
                          Triple(t = "require", result.ret[1].min_fmri,
                                 IF t = "incorporate" THEN result.ret[1].min_fmri
                                 ELSE NoneFmri))

\* ------------------------------- DependencyAction: construction, indices
\* Here a text is the sequence of its characters.
\* Longest text (after an optional "pkg:/") handed to the constructor.
MaxLen == 4

Digits == {"0", "1", "2", "3", "4", "5", "6", "7", "8", "9"}

\* The characters of the texts handed to the constructor: a zero and a
\* non-zero digit, the dot, the at sign, the three separators and a letter.
Alphabet == {"0", "1", ".", "@", ",", "-", ":", "a"}

PkgPrefix == <<"p", "k", "g", ":", "/">>

Bodies == UNION {[1..n -> Alphabet] : n \in 0..MaxLen}
Texts == Bodies \cup {PkgPrefix \o b : b \in Bodies}

\* s.find(ch, start), positions counted from 1: 0 when ch does not occur at
\* or after start (Python: -1).
Find(s, ch, start) ==
    LET hits == {i \in start..Len(s) : s[i] = ch}
    IN  IF hits = {} THEN 0 ELSE CHOOSE i \in hits : \A j \in hits : i <= j

\* s.split("."): the elements between the dots, never fewer than one.
RECURSIVE Split(_)
Split(s) ==
    LET d == Find(s, ".", 1)
    IN  IF d = 0 THEN <<s>>
        ELSE <<SubSeq(s, 1, d - 1)>> \o Split(SubSeq(s, d + 1, Len(s)))

\* ".".join(xs)
RECURSIVE Join(_)
Join(xs) ==
    IF Len(xs) = 1 THEN xs[1] ELSE xs[1] \o <<".">> \o Join(Tail(xs))

\* Whether int(x) accepts x: digits after an optional sign (of the signs
\* and blanks int() accepts, only "-" is a character of the texts).
IsInt(x) ==
    LET d == IF x # <<>> /\ x[1] = "-" THEN Tail(x) ELSE x
    IN  d # <<>> /\ \A i \in 1..Len(d) : d[i] \in Digits

\* Digits without their leading zeros ("0" for zero).
RECURSIVE StripZeros(_)
StripZeros(d) ==
    IF Len(d) > 1 /\ d[1] = "0" THEN StripZeros(Tail(d)) ELSE d

\* str(int(x)) for an x that int() accepts.
IntStr(x) ==
    LET neg == x[1] = "-"
        d   == StripZeros(IF neg THEN Tail(x) ELSE x)
    IN  IF neg /\ d # <<"0">> THEN <<"-">> \o d ELSE d

\* clean_fmri: where the release ends, one past its last character: at the
\* first ",", or with no "," at the first "-", or with neither at the first
\* ":", or at the end of the text; vb is the position of the "@".
verend(s, vb) ==
    IF Find(s, ",", vb) # 0 THEN Find(s, ",", vb)
    ELSE IF Find(s, "-", vb) # 0 THEN Find(s, "-", vb)
    ELSE IF Find(s, ":", vb) # 0 THEN Find(s, ":", vb)
    ELSE Len(s) + 1

\* clean_fmri: fmri_string[verbegin:verend], verbegin past the "@".
verdots(s) == SubSeq(s, Find(s, "@", 1) + 1, verend(s, Find(s, "@", 1)) - 1)

\* DependencyAction.clean_fmri, mutated: the text after the release is cut
\* one character late.
clean_fmri_drop_separator(a) ==
    LET s    == a.fmri
        vb   == Find(s, "@", 1)
        dots == Split(verdots(s))
    IN  IF vb = 0 THEN [attrs |-> a, exc |-> "none"]
        ELSE IF \E i \in 1..Len(dots) : ~IsInt(dots[i])
        THEN [attrs |-> a, exc |-> "ValueError"]
        ELSE [attrs |-> [a EXCEPT !.fmri =
                            SubSeq(s, 1, vb)
                            \o Join([i \in 1..Len(dots) |-> IntStr(dots[i])])
                            \o SubSeq(s, verend(s, vb) + 1, Len(s))],
              exc |-> "none"]

\* DependencyAction.clean_fmri, mutated: the elements are copied as written.
clean_fmri_no_int(a) ==
    LET s    == a.fmri
        vb   == Find(s, "@", 1)
        dots == Split(verdots(s))
    IN  IF vb = 0 THEN [attrs |-> a, exc |-> "none"]
        ELSE IF \E i \in 1..Len(dots) : ~IsInt(dots[i])
        THEN [attrs |-> a, exc |-> "ValueError"]
        ELSE [attrs |-> a, exc |-> "none"]

\* DependencyAction.clean_fmri(): self.attrs after the call, and the
\* exception int() raised on an element ("none": the call returned).
clean_fmri(a) ==
    LET s    == a.fmri
        vb   == Find(s, "@", 1)
        dots == Split(verdots(s))
    IN  IF vb = 0 THEN [attrs |-> a, exc |-> "none"]
        ELSE IF \E i \in 1..Len(dots) : ~IsInt(dots[i])
        THEN [attrs |-> a, exc |-> "ValueError"]
        ELSE [attrs |-> [a EXCEPT !.fmri =
                            SubSeq(s, 1, vb)
                            \o Join([i \in 1..Len(dots) |-> IntStr(dots[i])])
                            \o SubSeq(s, verend(s, vb), Len(s))],
              exc |-> "none"]

\* DependencyAction.__init__(**attrs): generic.Action.__init__ stores the
\* attributes, then clean_fmri runs; what it raises leaves the constructor.
init(d) == clean_fmri(d)

\* urllib.quote: the characters it never encodes.
always_safe == {"a", "e", "g", "k", "p", "s", "t"} \cup Digits \cup {"_", ".", "-"}

\* urllib.quote: "%" and the two hexadecimal digits of the character code.
PercentCode(ch) ==
    CASE ch = "," -> <<"%", "2", "C">>
      [] ch = ":" -> <<"%", "3", "A">>
      [] ch = "/" -> <<"%", "2", "F">>
      [] ch = "%" -> <<"%", "2", "5">>

\* urllib.quote(s, safe)
quote(s, safe) ==
    Concat([i \in 1..Len(s) |->
                IF s[i] \in always_safe \cup safe THEN <<s[i]>>
                ELSE PercentCode(s[i])])

\* s.replace(old, new), old and new one character each
replace(s, old, new) == [i \in 1..Len(s) |-> IF s[i] = old THEN new ELSE s[i]]

\* s.startswith(prefix)
startswith(s, prefix) ==
    Len(s) >= Len(prefix) /\ SubSeq(s, 1, Len(prefix)) = prefix

\* DependencyAction.generate_indices, mutated: the "pkg:/" stays.
generate_indices_keep_prefix(a) ==
    IF a.type \notin known_types THEN Return(<<>>, <<>>)
    ELSE Return(<<[category |-> "depend",
                   key |-> replace(quote(a.fmri, {"@"}), "@", "/")]>>, <<>>)

\* DependencyAction.generate_indices(): the mapping returned, as the
\* sequence of its entries.
generate_indices(a) ==
    IF a.type \notin known_types THEN Return(<<>>, <<>>)
    ELSE LET fmri == IF startswith(a.fmri, PkgPrefix)
                     THEN SubSeq(a.fmri, 6, Len(a.fmri)) ELSE a.fmri
         IN  Return(<<[category |-> "depend",
                       key |-> replace(quote(fmri, {"@"}), "@", "/")]>>, <<>>)

\* The types of the declarations constructed: a known one, an unknown one.
ConstructTypes == {"require", "bogus"}

\* No DependencyAction yet.
NoAction == [type |-> "", fmri |-> <<>>]

\* Any attributes for the constructor; the Catalog is left as constructed.
ActionInit ==
    /\ CatalogInit
    /\ data \in [type : ConstructTypes, fmri : Texts]
    /\ action = NoAction
    /\ image = [has |-> TRUE, older |-> NoVersion]
    /\ result = NotCalled

\* DependencyAction(**data): action is self.attrs when the constructor ends;
\* result.exc = "none" when it gave the declaration to its caller.
Construct ==
    /\ result = NotCalled
    /\ \E r \in {init(data)} :
          /\ action' = r.attrs
          /\ result' = IF r.exc = "none" THEN Return(<<>>, <<"clean_fmri">>)
                       ELSE Raise(r.exc, <<"clean_fmri">>)
    /\ UNCHANGED <<image, data>>
    /\ UNCHANGED catVars

\* The declaration was constructed and nothing was called on it since.
Constructed == result = Return(<<>>, <<"clean_fmri">>)

\* A call of generate_indices() on the declaration constructed.
GenerateIndices ==
    /\ Constructed
    /\ result' = generate_indices(action)
    /\ UNCHANGED <<action, image, data>>
    /\ UNCHANGED catVars

ActionNext == Construct \/ GenerateIndices

SpecAction == ActionInit /\ [][ActionNext]_vars

\* ------------------------------------------------------ claims C14 to C18
HasAt(s) == Find(s, "@", 1) # 0

DigitVal(ch) ==
    CASE ch = "0" -> 0 [] ch = "1" -> 1 [] ch = "2" -> 2 [] ch = "3" -> 3
      [] ch = "4" -> 4 [] ch = "5" -> 5 [] ch = "6" -> 6 [] ch = "7" -> 7
      [] ch = "8" -> 8 [] ch = "9" -> 9

RECURSIVE DigitsVal(_)
DigitsVal(d) ==
    IF d = <<>> THEN 0
    ELSE 10 * DigitsVal(SubSeq(d, 1, Len(d) - 1)) + DigitVal(d[Len(d)])

\* The integer an element denotes.
NumVal(x) == IF x[1] = "-" THEN 0 - DigitsVal(Tail(x)) ELSE DigitsVal(x)

\* An integer as it is written: no leading zero, no sign on zero.
Canonical(x) ==
    LET d == IF x[1] = "-" THEN Tail(x) ELSE x
    IN  /\ d # <<>>
        /\ \A i \in 1..Len(d) : d[i] \in Digits
        /\ (d[1] = "0" => x = <<"0">>)

LegacyText ==
    <<"p", "k", "g", ":", "/", "t", "e", "s", "t", "@",
      "2", ".", "0", "1", ".", "0", "1", ".", "3", "8", "-", "0", ".", "9", "6">>

RepairedText ==
    <<"p", "k", "g", ":", "/", "t", "e", "s", "t", "@",
      "2", ".", "1", ".", "1", ".", "3", "8", "-", "0", ".", "9", "6">>

\* C14: when clean_fmri succeeded on a text, clean_fmri on the repaired text
\* succeeds and leaves it as it is, and the elements of the repaired release
\* are those of the original, one for one, each written as its integer
\* value without leading zeros; pkg:/test@2.01.01.38-0.96 becomes
\* pkg:/test@2.1.1.38-0.96.
C14_CleanIdempotent ==
    Constructed =>
        /\ clean_fmri(action) = [attrs |-> action, exc |-> "none"]
        /\ HasAt(data.fmri) =>
               LET old == Split(verdots(data.fmri))
                   new == Split(verdots(action.fmri))
               IN  /\ Len(new) = Len(old)
                   /\ \A i \in 1..Len(new) :
                          Canonical(new[i]) /\ NumVal(new[i]) = NumVal(old[i])
        /\ clean_fmri([type |-> "require", fmri |-> LegacyText])
               = [attrs |-> [type |-> "require", fmri |-> RepairedText],
                  exc |-> "none"]

\* A text with a padded element and a build release was repaired.
C14_Witness ==
    /\ Constructed
    /\ Find(data.fmri, ",", 1) # 0
    /\ Len(action.fmri) < Len(data.fmri)

\* The earliest "," or "-" or ":" right of the first "@", one past the end
\* of the text when there is none.
EarliestSeparator(s) ==
    LET seps == {i \in Find(s, "@", 1)..Len(s) : s[i] \in {",", "-", ":"}}
    IN  IF seps = {} THEN Len(s) + 1
        ELSE CHOOSE i \in seps : \A j \in seps : i <= j

\* C15: the release that clean_fmri reads and rewrites runs from just after
\* the first "@" to the earliest of all the "," and "-" and ":" right of it,
\* or to the end of the text when there is none.
C15_EarliestSeparator ==
    (result.calls = <<"clean_fmri">> /\ HasAt(data.fmri)) =>
        verdots(data.fmri)
            = SubSeq(data.fmri, Find(data.fmri, "@", 1) + 1,
                     EarliestSeparator(data.fmri) - 1)

NotNumeric(s) ==
    \E i \in 1..Len(Split(verdots(s))) :
        \/ Split(verdots(s))[i] = <<>>
        \/ \E k \in 1..Len(Split(verdots(s))[i]) :
              Split(verdots(s))[i][k] = "a"

\* C17: when an element of the release is not numeric, clean_fmri ends in
\* ValueError, the fmri attribute is the text given, and the constructor
\* gives its caller the declaration.
C17_FailureLeavesDeclaration ==
    (result.calls = <<"clean_fmri">> /\ HasAt(data.fmri)
         /\ NotNumeric(data.fmri)) =>
        /\ clean_fmri(data).exc = "ValueError"
        /\ action.fmri = data.fmri
        /\ result.exc = "none"

\* What one character of the text becomes in the key.
KeyChar(ch) ==
    CASE ch = "@" -> <<"/">>
      [] ch = "," -> <<"%", "2", "C">>
      [] ch = ":" -> <<"%", "3", "A">>
      [] ch = "/" -> <<"%", "2", "F">>
      [] OTHER -> <<ch>>

\* The text without a leading "pkg:/".
Unprefixed(s) ==
    IF Len(s) >= 5 /\ SubSeq(s, 1, 5) = PkgPrefix THEN SubSeq(s, 6, Len(s))
    ELSE s

KeyOf(s) == Concat([i \in 1..Len(Unprefixed(s)) |-> KeyChar(Unprefixed(s)[i])])

\* generate_indices was called on the declaration.
Indexed == result.exc = "none" /\ result.calls = <<>>

\* C18: generate_indices on a declaration of a known type returns the one
\* entry "depend" with the key made of the FMRI text: "pkg:/" taken off the
\* front, "@" turned into "/", the other characters percent-encoded unless
\* letters, digits or "_.-"; on any other type it returns the empty mapping;
\* (require, pkg:/test@1.0) gives test/1.0.
C18_GenerateIndices ==
    /\ Indexed =>
           result.ret = IF action.type \in known_types
                        THEN <<[category |-> "depend", key |-> KeyOf(action.fmri)]>>
                        ELSE <<>>
    /\ generate_indices([type |-> "require",
                         fmri |-> PkgPrefix \o <<"t", "e", "s", "t", "@", "1", ".", "0">>])
           = Return(<<[category |-> "depend",
                       key |-> <<"t", "e", "s", "t", "/", "1", ".", "0">>]>>, <<>>)

\* A key was made of a text with the prefix, an "@" and an encoded character.
C18_Witness ==
    /\ Indexed
    /\ action.type = "require"
    /\ startswith(action.fmri, PkgPrefix)
    /\ HasAt(action.fmri)
    /\ Find(action.fmri, ",", 1) # 0

\* ------------------------------------------------ the Catalog's queries
\* PkgFmri.is_similar(other): identical stem, any version.
is_similar(a, b) == a.name = b.name

\* The constraints handed to matching_versions: none, or the exact version.
Constraints == {"None", "exact"}

\* Package.matching_versions(pfmri, constraint): the stored versions of a
\* stem similar to the target's that the constraint admits, in stored order.
matching_versions(p, pfmri, constraint) ==
    LET target == PkgFmri(pfmri).val
        Admits(f) == /\ is_similar(f, target)
                     /\ (constraint = "exact" => f.version = target.version)
    IN  SelectSeq(p.pversions, Admits)

\* re.search(regex, fn) for a regex without special characters, texts being
\* sequences of tokens: regex occurs in fn.
re_search(regex, fn) ==
    \E i \in 1..Len(fn) :
        i + Len(regex) - 1 <= Len(fn) /\ SubSeq(fn, i, i + Len(regex) - 1) = regex

\* "%s@%s" % (p.fmri, pv.version)
StemAtVersion(p, pv) == FmriStr(p.fmri) \o <<"@", pv.version>>

\* The inner loop of get_regex_matching_fmris over p.pversions.
MatchesIn(p, regex) ==
    LET Hit(pv) == re_search(regex, StemAtVersion(p, pv))
        hits == SelectSeq(p.pversions, Hit)
    IN  [k \in 1..Len(hits) |-> PkgFmri(StemAtVersion(p, hits[k])).val]

\* Catalog.get_regex_matching_fmris, mutated: the packages are walked from
\* the last to the first.
get_regex_matching_fmris_reversed(c, regex) ==
    LET ret == Concat([i \in 1..Len(c.pkgs) |->
                           MatchesIn(c.pkgs[Len(c.pkgs) + 1 - i], regex)])
    IN  IF ret = <<>> THEN Raise("KeyError", <<>>) ELSE Return(ret, <<>>)

\* Catalog.get_regex_matching_fmris(regex)
get_regex_matching_fmris(c, regex) ==
    LET ret == Concat([i \in 1..Len(c.pkgs) |-> MatchesIn(c.pkgs[i], regex)])
    IN  IF ret = <<>> THEN Raise("KeyError", <<>>) ELSE Return(ret, <<>>)

\* Catalog.get_matching_pkgs, mutated: an empty match is a miss.
get_matching_pkgs_empty_is_miss(c, pfmri, constraint) ==
    LET pf   == PkgFmri(pfmri)
        hits == {i \in 1..Len(c.pkgs) : is_similar(c.pkgs[i].fmri, pf.val)}
    IN  IF pf.exc # "none" THEN Raise(pf.exc, <<>>)
        ELSE IF hits = {} THEN Raise("KeyError", <<>>)
        ELSE LET i == CHOOSE j \in hits : \A h \in hits : j <= h
                 m == matching_versions(c.pkgs[i], pfmri, constraint)
             IN  IF m = <<>> THEN Raise("KeyError", <<>>) ELSE Return(m, <<>>)

\* Catalog.get_matching_pkgs(pfmri, constraint)
get_matching_pkgs(c, pfmri, constraint) ==
    LET pf   == PkgFmri(pfmri)
        hits == {i \in 1..Len(c.pkgs) : is_similar(c.pkgs[i].fmri, pf.val)}
    IN  IF pf.exc # "none" THEN Raise(pf.exc, <<>>)
        ELSE IF hits = {} THEN Raise("KeyError", <<>>)
        ELSE LET i == CHOOSE j \in hits : \A h \in hits : j <= h
             IN  Return(matching_versions(c.pkgs[i], pfmri, constraint), <<>>)

\* None, as a value returned.
None == "None"

\* Catalog.difference(catalog): a bare return, whatever the two catalogs.
difference(c, catalog) == Return(<<None>>, <<>>)

\* The catalogs handed to difference: an empty one, one of one Package, one
\* of two.
OtherCatalogs ==
    UNION {{NewCatalog(t),
            add_fmri(NewCatalog(t), FmriObj("test", "1.0")),
            add_fmri(add_fmri(NewCatalog(t), FmriObj("test", "1.0")),
                     FmriObj("foo", "2.0"))} : t \in Times}

\* The patterns searched for: a name stored, a name never stored, the "@",
\* a version, a whole identifier.
Patterns ==
    {<<"test">>, <<"foo">>, <<"flob">>, <<"@">>, <<"1.0">>,
     <<"foo", "@", "2.0">>}

\* The texts looked up: with and without version, and one with no stem.
QueryTexts ==
    {FmriStr(FmriObj(n, v)) : n \in Names, v \in {"1.0", NoVersion}}
        \cup {<<"pkg:/", "", "@", "1.0">>}

\* A call of get_regex_matching_fmris(regex).
GetRegexMatchingFmris(regex) ==
    \E r \in {get_regex_matching_fmris(cat, regex)} :
        /\ result' = r
        /\ data' = [regex |-> regex]
        /\ last' = [op |-> "get_regex_matching_fmris", out |-> r.exc]
        /\ UNCHANGED <<attrs, pkgs, critical_pkgs, action, image, threads>>

\* A call of get_matching_pkgs(pfmri, constraint).
GetMatchingPkgs(pfmri, constraint) ==
    \E r \in {get_matching_pkgs(cat, pfmri, constraint)} :
        /\ result' = r
        /\ data' = [pfmri |-> pfmri, constraint |-> constraint]
        /\ last' = [op |-> "get_matching_pkgs", out |-> r.exc]
        /\ UNCHANGED <<attrs, pkgs, critical_pkgs, action, image, threads>>

\* A call of difference(catalog).
Difference(catalog) ==
    \E r \in {difference(cat, catalog)} :
        /\ result' = r
        /\ data' = [catalog |-> catalog]
        /\ last' = [op |-> "difference", out |-> r.exc]
        /\ UNCHANGED <<attrs, pkgs, critical_pkgs, action, image, threads>>

\* The Catalog is filled by add_fmri and add_pkg, then queried.
QueryNext ==
    \/ result = NotCalled /\ \E f \in FmriObjs : AddFmri(f)
    \/ result = NotCalled
           /\ \E p \in InputPackages, critical \in BOOLEAN : AddPkg(p, critical)
    \/ \E regex \in Patterns : GetRegexMatchingFmris(regex)
    \/ \E pfmri \in QueryTexts, constraint \in Constraints :
           GetMatchingPkgs(pfmri, constraint)
    \/ \E catalog \in OtherCatalogs : Difference(catalog)

SpecQuery == Init /\ [][QueryNext]_vars

\* ------------------------------------------------------ claims C19 and C20
\* Every stored version, Package after Package, each in stored order.
AllStored == Concat([i \in 1..Len(pkgs) |-> pkgs[i].pversions])

\* The stored versions whose text matches the pattern, in that order.
StoredMatching(regex) ==
    LET Hit(f) == re_search(regex, FmriStr(f))
    IN  SelectSeq(AllStored, Hit)

\* C19: get_regex_matching_fmris(pattern) raises KeyError when no stored
\* version has a text <stem>@<version> matching the pattern, and otherwise
\* returns one FMRI for each stored version that matches, in the order of
\* pkgs and then of pversions.
C19_RegexMatching ==
    last.op = "get_regex_matching_fmris" =>
        IF StoredMatching(data.regex) = <<>>
        THEN result = Raise("KeyError", <<>>)
        ELSE result = Return(StoredMatching(data.regex), <<>>)

\* Two Packages, the second stored first in name order, both matched.
C19_Witness ==
    /\ last.op = "get_regex_matching_fmris"
    /\ result.exc = "none"
    /\ Len(result.ret) >= 3
    /\ result.ret[1].name # result.ret[Len(result.ret)].name

\* The Packages of a stem similar to the text's.
SimilarTo(pfmri) ==
    {i \in 1..Len(pkgs) : pkgs[i].fmri.name = PkgFmri(pfmri).val.name}

\* C20: get_matching_pkgs(fmriText, constraint) raises KeyError exactly when
\* the text parses and no Package has a stem similar to it; otherwise, the
\* text parsing, it returns what matching_versions of the first such Package
\* gives, empty or not; and the call leaves the Catalog as it was.
C20_MatchingPkgs ==
    /\ [](last.op = "get_matching_pkgs" =>
            /\ result.exc = "KeyError" <=>
                   (PkgFmri(data.pfmri).exc = "none" /\ SimilarTo(data.pfmri) = {})
            /\ (PkgFmri(data.pfmri).exc = "none" /\ SimilarTo(data.pfmri) # {}) =>
                   LET i == CHOOSE j \in SimilarTo(data.pfmri) :
                                \A h \in SimilarTo(data.pfmri) : j <= h
                   IN  result = Return(matching_versions(pkgs[i], data.pfmri,
                                                         data.constraint), <<>>))
    /\ [][last'.op = "get_matching_pkgs" => UNCHANGED <<attrs, pkgs, critical_pkgs>>]_vars

\* A Package of the stem holds versions and none of them matched.
C20_Witness ==
    /\ last.op = "get_matching_pkgs"
    /\ result = Return(<<>>, <<>>)
    /\ \E i \in SimilarTo(data.pfmri) : pkgs[i].pversions # <<>>

\* ------------------------------------------------------ claims C21 to C28
\* C21: a call of add_pkg(pkg, critical) on a Catalog holding a Package of
\* pkg's stem leaves pkgs (so every version list), critical_pkgs and attrs
\* as they were, whatever critical is; on a Catalog holding none it appends
\* pkg to pkgs.
C21_AddPkgNoop ==
    [][\A p \in InputPackages, critical \in BOOLEAN :
          (last'.op = "add_pkg" /\ AddPkg(p, critical)) =>
              IF HasStem(cat, p.fmri.name)
              THEN UNCHANGED <<attrs, pkgs, critical_pkgs>>
              ELSE pkgs' = Append(pkgs, p)]_vars

\* add_pkg found the stem of a Package that holds versions.
C21_Witness ==
    /\ last = [op |-> "add_pkg", out |-> "noop"]
    /\ \E i \in 1..Len(pkgs) : Len(pkgs[i].pversions) = 2

\* The (stem, version) pairs a catalog stores.
StoredPairs(ps) ==
    UNION {{<<ps[i].fmri.name, ps[i].pversions[k].version>> :
                k \in 1..Len(ps[i].pversions)} : i \in 1..Len(ps)}

\* The elements of a sequence of FMRIs, as (stem, version) pairs.
PairsOf(fs) == {<<fs[k].name, fs[k].version>> : k \in 1..Len(fs)}

\* C22: difference(other) returns two lists, the first of the (stem,
\* version) pairs this Catalog stores and other does not, the second of
\* those other stores and this Catalog does not.
C22_Difference ==
    last.op = "difference" =>
        /\ result.exc = "none"
        /\ Len(result.ret) = 2
        /\ PairsOf(result.ret[1])
               = StoredPairs(pkgs) \ StoredPairs(data.catalog.pkgs)
        /\ PairsOf(result.ret[2])
               = StoredPairs(data.catalog.pkgs) \ StoredPairs(pkgs)

\* C23: no call of add_fmri, add_pkg or load takes a (stem, version) out
\* of the Catalog or a Package out of pkgs: what one state stores, the next
\* stores, and so does every later one.
C23_OnlyAdded ==
    [][/\ StoredPairs(pkgs) \subseteq StoredPairs(pkgs')
       /\ Len(pkgs') >= Len(pkgs)
       /\ \A i \in 1..Len(pkgs) : pkgs'[i].fmri = pkgs[i].fmri]_vars

\* load added a Package to a Catalog that held one with two versions.
C23_Witness ==
    /\ last.op = "load"
    /\ Len(pkgs) = 2
    /\ Len(pkgs[1].pversions) = 2
    /\ Len(pkgs[2].pversions) = 1

\* -------------------------------------------- concurrent calls of writers
\* A call of add_fmri(f) about to start: the Package it would create.
FmriCall(f) ==
    [op |-> "add_fmri", fmri |-> f, pkg |-> Package(PkgFmri(get_pkg_stem(f)).val),
     critical |-> FALSE, pc |-> "scan"]

\* A call of add_pkg(p, critical) about to start.
PkgCall(p, critical) ==
    [op |-> "add_pkg", fmri |-> p.fmri, pkg |-> p, critical |-> critical,
     pc |-> "scan"]

ThreadCalls ==
    {FmriCall(f) : f \in FmriObjs}
        \cup {PkgCall(p, critical) : p \in InputPackages, critical \in BOOLEAN}

\* Two threads call writers of the one Catalog; catalog.py takes no lock.
Spawn(c1, c2) ==
    /\ threads = <<>>
    /\ threads' = <<c1, c2>>
    /\ UNCHANGED <<attrs, pkgs, critical_pkgs, last>>
    /\ UNCHANGED depVars

\* Thread t runs the loop over self.pkgs of add_fmri (catalog.py:123-126) or
\* add_pkg (133-141): on a Package of the stem add_fmri calls add_version
\* and returns, add_pkg returns; with none the thread leaves the loop.
Scan(t) ==
    /\ t \in DOMAIN threads
    /\ threads[t].pc = "scan"
    /\ LET th   == threads[t]
           hits == {i \in 1..Len(pkgs) : pkgs[i].fmri = th.pkg.fmri}
       IN  IF hits = {}
           THEN /\ threads' = [threads EXCEPT ![t].pc = "append"]
                /\ UNCHANGED <<pkgs, last>>
           ELSE /\ threads' = [threads EXCEPT ![t].pc = "done"]
                /\ pkgs' = IF th.op = "add_fmri"
                           THEN [pkgs EXCEPT
                                    ![CHOOSE i \in hits : \A h \in hits : i <= h] =
                                        add_version(@, th.fmri)]
                           ELSE pkgs
                /\ last' = [op |-> th.op,
                            out |-> IF th.op = "add_fmri" THEN "existing" ELSE "noop"]
    /\ UNCHANGED <<attrs, critical_pkgs>>
    /\ UNCHANGED depVars

\* Thread t, past the loop, appends: add_fmri its new Package seeded with
\* the version (catalog.py:128-130), add_pkg the Package given (143-145).
AppendPkg(t) ==
    /\ t \in DOMAIN threads
    /\ threads[t].pc = "append"
    /\ LET th == threads[t]
       IN  /\ pkgs' = Append(pkgs, IF th.op = "add_fmri"
                                   THEN add_version(th.pkg, th.fmri) ELSE th.pkg)
           /\ critical_pkgs' = IF th.op = "add_pkg" /\ th.critical
                               THEN Append(critical_pkgs, CriticalPackage(th.pkg))
                               ELSE critical_pkgs
           /\ last' = [op |-> th.op,
                       out |-> IF th.op = "add_fmri" THEN "new"
                               ELSE IF th.critical THEN "critical" ELSE "inserted"]
    /\ threads' = [threads EXCEPT ![t].pc = "done"]
    /\ UNCHANGED attrs
    /\ UNCHANGED depVars

ThreadsNext ==
    \/ \E c1 \in ThreadCalls, c2 \in ThreadCalls : Spawn(c1, c2)
    \/ \E t \in {1, 2} : Scan(t)
    \/ \E t \in {1, 2} : AppendPkg(t)

SpecThreads == Init /\ [][ThreadsNext]_vars

\* C24: when two concurrent calls of add_fmri or add_pkg have both
\* returned, the Catalog holds one Package for each stem, and the version
\* each add_fmri call brought is stored in the first Package of its stem.
C24_WritersExclusive ==
    (threads # <<>> /\ \A t \in DOMAIN threads : threads[t].pc = "done") =>
        /\ \A i, j \in 1..Len(pkgs) : pkgs[i].fmri.name = pkgs[j].fmri.name => i = j
        /\ \A t \in DOMAIN threads :
               threads[t].op = "add_fmri" =>
                   \E i \in 1..Len(pkgs) :
                       /\ pkgs[i].fmri.name = threads[t].fmri.name
                       /\ \A j \in 1..(i - 1) : pkgs[j].fmri.name # threads[t].fmri.name
                       /\ \E k \in 1..Len(pkgs[i].pversions) :
                              pkgs[i].pversions[k].version = threads[t].fmri.version

\* ------------------------------------------------- load, file after file
\* Lines of the files loaded here: two V lines, a C line, an I line, and a
\* V and a C line of an identifier that does not start with "pkg:".
LoadLines ==
    {<<"V", " ">> \o FmriStr(FmriObj("test", "1.0")),
     <<"V", " ">> \o FmriStr(FmriObj("foo", "2.0")),
     <<"C", " ">> \o FmriStr(FmriObj("foo", "1.0")),
     <<"I", " ">> \o FmriStr(FmriObj("foo", "1.0")),
     <<"V", " ", "svc:/", "foo">>,
     <<"C", " ", "svc:/", "foo">>}

LoadFiles == UNION {[1..n -> LoadLines] : n \in 0..MaxLines}

\* A call of load(path) on a file of lines centries, which data keeps.
LoadFile(centries) ==
    \E r \in {load(cat, centries)} :
        /\ Len(r.cat.critical_pkgs) <= MaxCritical
        /\ Becomes(r.cat)
        /\ last' = [op |-> "load", out |-> r.exc]
        /\ data' = [centries |-> centries]
        /\ UNCHANGED <<action, image, result>>

LoadNext == \E centries \in LoadFiles : LoadFile(centries)

SpecLoad == Init /\ [][LoadNext]_vars

\* A line that is an S, V or C record: the letter, and for V and C an
\* identifier that starts with "pkg:".
IsRecord(entry) ==
    /\ Len(entry) >= 3
    /\ entry[1] \in {"S", "V", "C"}
    /\ entry[2] = " "
    /\ entry[1] \in {"V", "C"} => entry[3] = "pkg:/"

\* The records of a file, in order.
Records(centries) == SelectSeq(centries, IsRecord)

\* C25: load of a file does to attrs, pkgs and critical_pkgs what load of
\* its S, V and C records alone does, and ends as that load ends; a file
\* without any such record changes nothing and load returns.
C25_LoadIgnoresOthers ==
    [][last'.op = "load" =>
          /\ Cat(attrs', pkgs', critical_pkgs')
                 = load(cat, Records(data'.centries)).cat
          /\ last'.out = load(cat, Records(data'.centries)).exc
          /\ Records(data'.centries) = <<>> =>
                 (last'.out = "none" /\ UNCHANGED <<attrs, pkgs, critical_pkgs>>)]_vars

\* A file of an I line and a V line of another scheme was loaded into a
\* Catalog that holds a Package and a critical entry.
C25_Witness ==
    /\ last = [op |-> "load", out |-> "none"]
    /\ Len(data.centries) = 2
    /\ data.centries[1][1] = "I"
    /\ data.centries[2][3] = "svc:/"
    /\ pkgs # <<>>
    /\ critical_pkgs # <<>>

\* C28: a load that follows a load of the same lines, both returning,
\* leaves attrs, pkgs and critical_pkgs as the first load left them.
C28_LoadTwice ==
    [][(/\ last.op = "load" /\ last.out = "none"
        /\ last'.op = "load" /\ last'.out = "none"
        /\ data'.centries = data.centries) =>
           UNCHANGED <<attrs, pkgs, critical_pkgs>>]_vars

\* verify was called on the declaration.
Verified == result # NotCalled

\* C26: a call of verify asks the image nothing, or has_version_installed
\* once, or has_version_installed once and then older_version_installed
\* once; it asks older_version_installed only for optional, transfer and
\* incorporate after has_version_installed answered no; for a type that is
\* not known it asks nothing; it never calls fmri_set_default_authority.
C26_LookupOrder ==
    Verified =>
        /\ result.calls \in {<<>>, <<"has_version_installed">>,
                             <<"has_version_installed", "older_version_installed">>}
        /\ Len(result.calls) = 2 =>
               (action.type \in {"optional", "transfer", "incorporate"} /\ ~image.has)
        /\ action.type \notin known_types => result.calls = <<>>

\* An incorporate whose dependency is absent: both lookups were made.
C26_Witness ==
    /\ Verified
    /\ action.type = "incorporate"
    /\ result.calls = <<"has_version_installed", "older_version_installed">>

\* C27: verify of a declaration of a known type whose dependency the image
\* reports installed returns the empty list, for incorporate as for the
\* others: no uprev message is ever returned.
C27_InstalledNoViolation ==
    (/\ Verified
     /\ action.type \in known_types
     /\ PkgFmri(action.fmri).exc = "none"
     /\ image.has) =>
        result = Return(<<>>, <<"has_version_installed">>)

\* An incorporate whose dependency is installed was verified.
C27_Witness ==
    /\ Verified
    /\ action.type = "incorporate"
    /\ image.has
    /\ result.exc = "none"
    /\ result.ret = <<>>

====
